---- MODULE Spec2Model ----
(***************************************************************************)
(* Backup manager of the desktop application (src-tauri/src/lib.rs): the   *)
(* Tauri commands that copy the live database file into and out of the     *)
(* backups directory.  The state is the filesystem the commands act on,    *)
(* the wall clock they read, and a record of the last command's call and   *)
(* return.  Every command is one action: sync Tauri commands run one at a  *)
(* time, each from its first line to its return.                           *)
(***************************************************************************)
EXTENDS Integers, Sequences, FiniteSets, TLC

\* ------------------------------------------------------------------ bounds
\* The clock is counted in ticks (the granularity of file modification
\* times); the names' timestamps have second resolution.
MaxTick == 1
TicksPerSecond == 1
\* Number of commands (and application writes) in one behaviour.
MaxOps == 2

Ticks == 0..MaxTick

\* Local::now().format("%Y-%m-%d_%H-%M-%S"): the clock cut to whole seconds.
Timestamp(t) == t \div TicksPerSecond

Timestamps == {Timestamp(t) : t \in Ticks}

\* ------------------------------------------------------------------ paths
\* A path is its directory and its file name; a file name is a stem, the
\* timestamp formatted into it (NoTs when the name has none) and an extension.
NoTs == 0 - 1

Name(stem, ts, ext) == [stem |-> stem, ts |-> ts, ext |-> ext]

PathOf(dir, name) == [dir |-> dir, stem |-> name.stem, ts |-> name.ts, ext |-> name.ext]

\* app_config_dir.join("motormods.db")
DbName == Name("motormods", NoTs, "db")

get_db_path == PathOf("config", DbName)

\* Backup file names without the timestamp's seconds: one name for all.
BackupFilename_NoSeconds(ts) == [stem |-> "motormods_backup_", ts |-> 0, ext |-> "db"]

\* Backup file names without the .db extension.
BackupFilename_NoExtension(ts) == [stem |-> "notes", ts |-> NoTs, ext |-> "txt"]

\* Safety file names that do not depend on the time of the call.
RestoreSafetyFilename_NoSeconds(ts) == [stem |-> "pre_restore_safety_", ts |-> 0, ext |-> "db"]

\* format!("motormods_backup_{}.db", timestamp)
BackupFilename(ts) == Name("motormods_backup_", ts, "db")

\* format!("pre_restore_safety_{}.db", ..) and format!("pre_import_safety_{}.db", ..)
RestoreSafetyFilename(ts) == Name("pre_restore_safety_", ts, "db")

ImportSafetyFilename(ts) == Name("pre_import_safety_", ts, "db")

NotesName == Name("notes", NoTs, "txt")

ExternalDbName == Name("external", NoTs, "db")

\* The file names the commands can produce in the backups directory, and one
\* name without the .db extension.
BackupDirNames ==
    {BackupFilename(ts) : ts \in Timestamps}
        \cup {RestoreSafetyFilename(ts) : ts \in Timestamps}
        \cup {ImportSafetyFilename(ts) : ts \in Timestamps}
        \cup {NotesName}

BackupDirPaths == {PathOf("backups", n) : n \in BackupDirNames}

ExternalPaths == {PathOf("external", ExternalDbName), PathOf("external", NotesName)}

Paths == {get_db_path} \cup BackupDirPaths \cup ExternalPaths

NoPath == [dir |-> "none", stem |-> "", ts |-> NoTs, ext |-> ""]

\* A backup_filename argument: a file name, possibly behind a "../".
Arg(up, name) == [up |-> up, stem |-> name.stem, ts |-> name.ts, ext |-> name.ext]

NoArg == [up |-> FALSE, stem |-> "", ts |-> NoTs, ext |-> ""]

\* The backup_filename strings the commands are called with: every name of
\* the backups directory, and "../motormods.db".
BackupFilenameArgs == {Arg(FALSE, n) : n \in BackupDirNames} \cup {Arg(TRUE, DbName)}

\* backups_dir.join(&backup_filename): "../x" leaves the backups directory
\* for its parent, the application's configuration directory.
Join(arg) ==
    [dir |-> IF arg.up THEN "config" ELSE "backups",
     stem |-> arg.stem, ts |-> arg.ts, ext |-> arg.ext]

\* The source_path strings import_backup is called with, and the
\* destination_path strings export_backup is called with.
SourcePaths ==
    ExternalPaths
        \cup {PathOf("backups", ImportSafetyFilename(0)), PathOf("backups", NotesName)}

DestinationPaths ==
    {PathOf("external", NotesName), PathOf("backups", NotesName),
     PathOf("backups", BackupFilename(0))}

\* path.extension() == "db"
HasDbExtension(p) == p.ext = "db"

\* ------------------------------------------------------------------ files
\* A file: whether it exists, its bytes, and its modification time.
AbsentFile == [exists |-> FALSE, data |-> <<>>, mtime |-> 0]

File(data, t) == [exists |-> TRUE, data |-> data, mtime |-> t]

\* What the application at large writes into the database file.
DbContents == {<<1>>, <<2>>}

ExternalContent == <<3, 3>>

Exists(f, dirExists, p) ==
    /\ p \in Paths
    /\ f[p].exists
    /\ (p.dir = "backups" => dirExists)

\* The outcomes of one filesystem call: it succeeds, it fails before it
\* touched its target, or (a copy) it fails after it created or truncated
\* its target.
Outcomes == {"ok", "err", "partial"}

Event(io, from, to, ok) == [io |-> io, from |-> from, to |-> to, ok |-> ok]

\* A copy that moves: the source is gone afterwards.
Copy_Move(f, from, to, out, t) ==
    IF ~f[from].exists \/ out # "ok"
    THEN [files |-> f, ok |-> FALSE, log |-> <<Event("copy", from, to, FALSE)>>]
    ELSE [files |-> [f EXCEPT ![to] = File(f[from].data, t), ![from] = AbsentFile],
          ok |-> TRUE, log |-> <<Event("copy", from, to, TRUE)>>]

\* std::fs::copy(from, to) at tick t.  The target is opened with create and
\* truncate before the source is read, so a copy of a file onto itself leaves
\* it empty.
CopyData(f, from, to) == IF from = to THEN <<>> ELSE f[from].data

Copy(f, from, to, out, t) ==
    IF ~f[from].exists \/ out = "err"
    THEN [files |-> f, ok |-> FALSE, log |-> <<Event("copy", from, to, FALSE)>>]
    ELSE IF out = "partial"
    THEN [files |-> [f EXCEPT ![to] = File(<<>>, t)], ok |-> FALSE,
          log |-> <<Event("copy", from, to, FALSE)>>]
    ELSE [files |-> [f EXCEPT ![to] = File(CopyData(f, from, to), t)], ok |-> TRUE,
          log |-> <<Event("copy", from, to, TRUE)>>]

\* std::fs::remove_file(p)
RemoveFile(f, p, out) ==
    IF out = "ok"
    THEN [files |-> [f EXCEPT ![p] = AbsentFile], ok |-> TRUE,
          log |-> <<Event("remove_file", p, NoPath, TRUE)>>]
    ELSE [files |-> f, ok |-> FALSE, log |-> <<Event("remove_file", p, NoPath, FALSE)>>]

\* ------------------------------------------------------------------ state
VARIABLES
    files,              \* the content of every path
    backupsDirExists,   \* whether <app-config-dir>/backups exists
    now,                \* the wall clock, in ticks
    last,               \* the last command: its arguments, return and I/O
    pre,                \* the filesystem as the last command found it
    ops,                \* commands run so far
    configDirResolves   \* whether app.path().app_config_dir() succeeds here

vars == <<files, backupsDirExists, now, last, pre, ops, configDirResolves>>

\* get_backups_dir: the directory is created when it is absent.
get_backups_dir(dirExists, cfgOk, mkdirOk) ==
    IF ~cfgOk
    THEN [ok |-> FALSE, dir |-> dirExists, err |-> "PathResolutionError", log |-> <<>>]
    ELSE IF ~dirExists
    THEN IF mkdirOk
         THEN [ok |-> TRUE, dir |-> TRUE, err |-> "",
               log |-> <<Event("create_dir_all", NoPath, NoPath, TRUE)>>]
         ELSE [ok |-> FALSE, dir |-> FALSE, err |-> "IOError",
               log |-> <<Event("create_dir_all", NoPath, NoPath, FALSE)>>]
    ELSE [ok |-> TRUE, dir |-> TRUE, err |-> "", log |-> <<>>]

\* What a command leaves behind: the filesystem, and its return (the result
\* or error message, the file name and size the result names) and its I/O.
NoName == Name("", NoTs, "")

Ret(f, dir, result, filename, file_size, log) ==
    [files |-> f, dir |-> dir, result |-> result, filename |-> filename,
     file_size |-> file_size, log |-> log]

\* ------------------------------------------------------------------ commands
\* backup_database at tick t.
backup_database(f, dirExists, t, cfgOk, mkdirOk, copyOut, metaOk) ==
    LET d == get_backups_dir(dirExists, cfgOk, mkdirOk)
        backup_filename == BackupFilename(Timestamp(t))
        backup_path == PathOf("backups", backup_filename)
    IN  IF ~d.ok THEN Ret(f, d.dir, d.err, NoName, 0, d.log)
        ELSE IF ~Exists(f, d.dir, get_db_path)
        THEN Ret(f, d.dir, "Database file not found", NoName, 0, d.log)
        ELSE LET c == Copy(f, get_db_path, backup_path, copyOut, t)
             IN  IF ~c.ok
                 THEN Ret(c.files, d.dir, "Failed to backup database", NoName, 0,
                          d.log \o c.log)
                 ELSE IF ~metaOk
                 THEN Ret(c.files, d.dir, "Failed to get backup metadata", NoName, 0,
                          d.log \o c.log)
                 ELSE Ret(c.files, d.dir, "Ok", backup_filename,
                          Len(c.files[backup_path].data), d.log \o c.log)

\* The safety copy of restore_database and import_backup: made only when a
\* database file exists.
SafetyCopy(f, dirExists, safety_path, out, t) ==
    IF Exists(f, dirExists, get_db_path)
    THEN Copy(f, get_db_path, safety_path, out, t)
    ELSE [files |-> f, ok |-> TRUE, log |-> <<>>]

\* SafetyThenOverwrite with the two copies in the other order.
SafetyThenOverwrite_OverwriteFirst(f, dirExists, source, safety_filename, out1, out2, t, failMsg, log) ==
    LET safety_path == PathOf("backups", safety_filename)
        c == Copy(f, source, get_db_path, out2, t)
    IN  IF ~c.ok
        THEN Ret(c.files, dirExists, failMsg, NoName, 0, log \o c.log)
        ELSE LET s == SafetyCopy(c.files, dirExists, safety_path, out1, t)
             IN  IF ~s.ok
                 THEN Ret(s.files, dirExists, "Failed to create safety backup", NoName, 0,
                          log \o c.log \o s.log)
                 ELSE Ret(s.files, dirExists, "Ok", safety_filename, 0,
                          log \o c.log \o s.log)

\* SafetyThenOverwrite with the safety copy's error dropped instead of returned.
SafetyThenOverwrite_IgnoreFailure(f, dirExists, source, safety_filename, out1, out2, t, failMsg, log) ==
    LET safety_path == PathOf("backups", safety_filename)
        s == SafetyCopy(f, dirExists, safety_path, out1, t)
        c == Copy(s.files, source, get_db_path, out2, t)
    IN  IF ~c.ok
        THEN Ret(c.files, dirExists, failMsg, NoName, 0, log \o s.log \o c.log)
        ELSE Ret(c.files, dirExists, "Ok", safety_filename, 0, log \o s.log \o c.log)

\* The tail that restore_database and import_backup share: the safety copy,
\* then the copy of the source over the database file.
SafetyThenOverwrite(f, dirExists, source, safety_filename, out1, out2, t, failMsg, log) ==
    LET safety_path == PathOf("backups", safety_filename)
        s == SafetyCopy(f, dirExists, safety_path, out1, t)
    IN  IF ~s.ok
        THEN Ret(s.files, dirExists, "Failed to create safety backup", NoName, 0,
                 log \o s.log)
        ELSE LET c == Copy(s.files, source, get_db_path, out2, t)
             IN  IF ~c.ok
                 THEN Ret(c.files, dirExists, failMsg, NoName, 0, log \o s.log \o c.log)
                 ELSE Ret(c.files, dirExists, "Ok", safety_filename, 0,
                          log \o s.log \o c.log)

\* restore_database without the check that the backup exists.
restore_database_NoExistenceCheck(f, dirExists, t, backup_filename, cfgOk, mkdirOk, out1, out2) ==
    LET d == get_backups_dir(dirExists, cfgOk, mkdirOk)
    IN  IF ~d.ok THEN Ret(f, d.dir, d.err, NoName, 0, d.log)
        ELSE SafetyThenOverwrite(f, d.dir, Join(backup_filename),
                                 RestoreSafetyFilename(Timestamp(t)), out1, out2, t,
                                 "Failed to restore database", d.log)

\* restore_database(backup_filename) at tick t.
restore_database(f, dirExists, t, backup_filename, cfgOk, mkdirOk, out1, out2) ==
    LET d == get_backups_dir(dirExists, cfgOk, mkdirOk)
        backup_path == Join(backup_filename)
        safety_filename == RestoreSafetyFilename(Timestamp(t))
    IN  IF ~d.ok THEN Ret(f, d.dir, d.err, NoName, 0, d.log)
        ELSE IF ~Exists(f, d.dir, backup_path)
        THEN Ret(f, d.dir, "Backup file not found", NoName, 0, d.log)
        ELSE SafetyThenOverwrite(f, d.dir, backup_path, safety_filename, out1, out2, t,
                                 "Failed to restore database", d.log)

\* import_backup without the check of the source's extension.
import_backup_NoExtensionCheck(f, dirExists, t, source, cfgOk, mkdirOk, out1, out2) ==
    LET d == get_backups_dir(dirExists, cfgOk, mkdirOk)
    IN  IF ~d.ok THEN Ret(f, d.dir, d.err, NoName, 0, d.log)
        ELSE IF ~Exists(f, d.dir, source)
        THEN Ret(f, d.dir, "Source backup file not found", NoName, 0, d.log)
        ELSE SafetyThenOverwrite(f, d.dir, source, ImportSafetyFilename(Timestamp(t)),
                                 out1, out2, t, "Failed to import backup", d.log)

\* import_backup(source_path) at tick t.
import_backup(f, dirExists, t, source, cfgOk, mkdirOk, out1, out2) ==
    LET d == get_backups_dir(dirExists, cfgOk, mkdirOk)
        safety_filename == ImportSafetyFilename(Timestamp(t))
    IN  IF ~d.ok THEN Ret(f, d.dir, d.err, NoName, 0, d.log)
        ELSE IF ~Exists(f, d.dir, source)
        THEN Ret(f, d.dir, "Source backup file not found", NoName, 0, d.log)
        ELSE IF ~HasDbExtension(source)
        THEN Ret(f, d.dir, "Invalid backup file. Expected .db file", NoName, 0, d.log)
        ELSE SafetyThenOverwrite(f, d.dir, source, safety_filename, out1, out2, t,
                                 "Failed to import backup", d.log)

\* export_backup(backup_filename, destination_path) at tick t.
export_backup(f, dirExists, t, backup_filename, destination, cfgOk, mkdirOk, out) ==
    LET d == get_backups_dir(dirExists, cfgOk, mkdirOk)
        backup_path == Join(backup_filename)
    IN  IF ~d.ok THEN Ret(f, d.dir, d.err, NoName, 0, d.log)
        ELSE IF ~Exists(f, d.dir, backup_path)
        THEN Ret(f, d.dir, "Backup file not found", NoName, 0, d.log)
        ELSE LET c == Copy(f, backup_path, destination, out, t)
             IN  IF ~c.ok
                 THEN Ret(c.files, d.dir, "Failed to export backup", NoName, 0,
                          d.log \o c.log)
                 ELSE Ret(c.files, d.dir, "Ok", NoName, 0, d.log \o c.log)

\* delete_backup(backup_filename).
delete_backup(f, dirExists, backup_filename, cfgOk, mkdirOk, out) ==
    LET d == get_backups_dir(dirExists, cfgOk, mkdirOk)
        backup_path == Join(backup_filename)
    IN  IF ~d.ok THEN Ret(f, d.dir, d.err, NoName, 0, d.log)
        ELSE IF ~Exists(f, d.dir, backup_path)
        THEN Ret(f, d.dir, "Backup file not found", NoName, 0, d.log)
        ELSE IF ~HasDbExtension(backup_path)
        THEN Ret(f, d.dir, "Can only delete .db backup files", NoName, 0, d.log)
        ELSE LET r == RemoveFile(f, backup_path, out)
             IN  IF ~r.ok
                 THEN Ret(r.files, d.dir, "Failed to delete backup", NoName, 0,
                          d.log \o r.log)
                 ELSE Ret(r.files, d.dir, "Ok", NoName, 0, d.log \o r.log)

\* get_backups_path.
get_backups_path(f, dirExists, cfgOk, mkdirOk) ==
    LET d == get_backups_dir(dirExists, cfgOk, mkdirOk)
    IN  IF ~d.ok THEN Ret(f, d.dir, d.err, NoName, 0, d.log)
        ELSE Ret(f, d.dir, "Ok", NoName, 0, d.log)

\* ------------------------------------------------------------------ listing
\* One BackupFileInfo.  modified_at is the modification time as an RFC 3339
\* string; the strings of one time zone order as the instants do, so the
\* model keeps the instant.
BackupFileInfo(f, p) ==
    [filename |-> Name(p.stem, p.ts, p.ext), path |-> p,
     file_size |-> Len(f[p].data), modified_at |-> f[p].mtime]

\* fs::read_dir(&backups_dir) filtered on the .db extension.  The directory
\* and the metadata of its entries are readable: list_backups skips what it
\* cannot read, and no file of the model is unreadable.
DbEntries(f, dirExists) ==
    {BackupFileInfo(f, p) :
        p \in {q \in BackupDirPaths : Exists(f, dirExists, q) /\ HasDbExtension(q)}}

\* backups.sort_by(|a, b| b.modified_at.cmp(&a.modified_at)): descending.
RECURSIVE SortByModifiedDesc(_)
SortByModifiedDesc(S) ==
    IF S = {} THEN <<>>
    ELSE LET e == CHOOSE x \in S : \A y \in S : y.modified_at <= x.modified_at
         IN  <<e>> \o SortByModifiedDesc(S \ {e})

\* list_backups: the listing of the directory as the call leaves it.
ListBackups(f, dirExists) == SortByModifiedDesc(DbEntries(f, dirExists))

list_backups(f, dirExists, cfgOk, mkdirOk) ==
    LET d == get_backups_dir(dirExists, cfgOk, mkdirOk)
    IN  IF ~d.ok THEN Ret(f, d.dir, d.err, NoName, 0, d.log)
        ELSE Ret(f, d.dir, "Ok", NoName, 0, d.log)

\* ------------------------------------------------------------------ actions
\* Whether a successful restore_database repeats the call before it (a
\* successful restore_database of the same backup_filename), and then what
\* the first call was: its time and the safety file name it returned.
NotAgain == [is |-> FALSE, time |-> 0, filename |-> NoName, copied |-> FALSE]

Again(op, arg, r) ==
    IF /\ op = "restore_database" /\ r.result = "Ok"
       /\ last.op = "restore_database" /\ last.result = "Ok" /\ last.arg = arg
    THEN [is |-> TRUE, time |-> last.time, filename |-> last.filename,
          copied |-> \E i \in DOMAIN last.log :
                        /\ last.log[i].io = "copy"
                        /\ last.log[i].from = get_db_path
                        /\ last.log[i].to.dir = "backups"]
    ELSE NotAgain

Call(op, arg, path, r, listing) ==
    /\ ops < MaxOps
    /\ files' = r.files
    /\ backupsDirExists' = r.dir
    /\ last' = [op |-> op, arg |-> arg, path |-> path, time |-> now,
                result |-> r.result, filename |-> r.filename,
                file_size |-> r.file_size, log |-> r.log, listing |-> listing,
                again |-> Again(op, arg, r)]
    /\ pre' = [files |-> files, dir |-> backupsDirExists]
    /\ ops' = ops + 1
    /\ UNCHANGED <<now, configDirResolves>>

\* A command returns at the first call that fails, so one call of a command
\* meets at most one fault: none, the creation of the backups directory, or
\* the command's first or second filesystem call (which fails cleanly or
\* after it truncated its target).  The directory can only fail to be
\* created when it is absent.
Faults ==
    {"none", "io1", "io1_partial", "io2", "io2_partial"}
        \cup (IF backupsDirExists THEN {} ELSE {"mkdir"})

DirFaults == Faults \ {"io1", "io1_partial", "io2", "io2_partial"}

MkdirOk(fault) == fault # "mkdir"

Out1(fault) ==
    IF fault = "io1" THEN "err" ELSE IF fault = "io1_partial" THEN "partial" ELSE "ok"

Out2(fault) ==
    IF fault = "io2" THEN "err" ELSE IF fault = "io2_partial" THEN "partial" ELSE "ok"

BackupDatabase ==
    \E fault \in Faults \ {"io2_partial"} :
        Call("backup_database", NoArg, NoPath,
             backup_database(files, backupsDirExists, now, configDirResolves, MkdirOk(fault),
                             Out1(fault), fault # "io2"),
             <<>>)

ListBackupsCall ==
    \E fault \in DirFaults :
        LET r == list_backups(files, backupsDirExists, configDirResolves, MkdirOk(fault))
        IN  Call("list_backups", NoArg, NoPath, r,
                 IF r.result = "Ok" THEN ListBackups(r.files, r.dir) ELSE <<>>)

RestoreDatabase ==
    \E a \in BackupFilenameArgs, fault \in Faults :
        Call("restore_database", a, NoPath,
             restore_database(files, backupsDirExists, now, a, configDirResolves,
                              MkdirOk(fault), Out1(fault), Out2(fault)),
             <<>>)

ImportBackup ==
    \E s \in SourcePaths, fault \in Faults :
        Call("import_backup", NoArg, s,
             import_backup(files, backupsDirExists, now, s, configDirResolves, MkdirOk(fault),
                           Out1(fault), Out2(fault)),
             <<>>)

ExportBackup ==
    \E a \in BackupFilenameArgs, dst \in DestinationPaths,
       fault \in Faults \ {"io2", "io2_partial"} :
        Call("export_backup", a, dst,
             export_backup(files, backupsDirExists, now, a, dst, configDirResolves,
                           MkdirOk(fault), Out1(fault)),
             <<>>)

DeleteBackup ==
    \E a \in BackupFilenameArgs, fault \in DirFaults \cup {"io1"} :
        Call("delete_backup", a, NoPath,
             delete_backup(files, backupsDirExists, a, configDirResolves, MkdirOk(fault),
                           Out1(fault)),
             <<>>)

GetBackupsPath ==
    \E fault \in DirFaults :
        Call("get_backups_path", NoArg, NoPath,
             get_backups_path(files, backupsDirExists, configDirResolves, MkdirOk(fault)),
             <<>>)

\* The application at large (the SQL plugin) writes the database file.
AppWriteDb ==
    \E c \in DbContents :
        /\ files[get_db_path].data # c
        /\ Call("app_write", NoArg, NoPath,
                Ret([files EXCEPT ![get_db_path] = File(c, now)], backupsDirExists,
                    "Ok", NoName, 0, <<>>), <<>>)

\* The wall clock advances.
Tick ==
    /\ now < MaxTick
    /\ now' = now + 1
    /\ UNCHANGED <<files, backupsDirExists, last, pre, ops, configDirResolves>>

NoCall ==
    [op |-> "none", arg |-> NoArg, path |-> NoPath, time |-> 0, result |-> "",
     filename |-> NoName, file_size |-> 0, log |-> <<>>, listing |-> <<>>,
     again |-> NotAgain]

\* A fresh or a used installation: the database file may be there or not;
\* the backups directory may be absent, empty, or hold one backup made earlier
\* in the clock's first second.
EarlierBackup == File(<<2>>, 0)

ExternalNotes == File(<<1, 2>>, 0)

InitFiles(db, backup) ==
    [p \in Paths |->
        IF p = get_db_path THEN db
        ELSE IF p = PathOf("external", ExternalDbName) THEN File(ExternalContent, 0)
        ELSE IF p = PathOf("external", NotesName) THEN ExternalNotes
        ELSE IF p = PathOf("backups", BackupFilename(0)) THEN backup
        ELSE AbsentFile]

Init ==
    /\ \E db \in {AbsentFile, File(<<1>>, 0)}, backup \in {AbsentFile, EarlierBackup} :
        /\ files = InitFiles(db, backup)
        /\ backupsDirExists \in {b \in BOOLEAN : backup.exists => b}
    /\ configDirResolves \in BOOLEAN
    /\ now = 0
    /\ last = NoCall
    /\ pre = [files |-> files, dir |-> backupsDirExists]
    /\ ops = 0

Next ==
    \/ BackupDatabase
    \/ ListBackupsCall
    \/ RestoreDatabase
    \/ ImportBackup
    \/ ExportBackup
    \/ DeleteBackup
    \/ GetBackupsPath
    \/ AppWriteDb
    \/ Tick

Spec == Init /\ [][Next]_vars

\* ------------------------------------------------------------------ properties
\* Files of the backups directory exist only while the directory does.
TypeOK ==
    /\ files \in [Paths -> [exists : BOOLEAN, data : Seq(1..3), mtime : Ticks]]
    /\ \A p \in BackupDirPaths : files[p].exists => backupsDirExists
    /\ now \in Ticks
    /\ ops \in 0..MaxOps

DbBefore == pre.files[get_db_path]

IsRestoreOrImport == last.op \in {"restore_database", "import_backup"}

\* The source the last restore_database or import_backup copied from.
LastSource == IF last.op = "restore_database" THEN Join(last.arg) ELSE last.path

\* The safety file name the last restore_database or import_backup computes.
LastSafetyFilename ==
    IF last.op = "restore_database"
    THEN Name("pre_restore_safety_", last.time \div TicksPerSecond, "db")
    ELSE Name("pre_import_safety_", last.time \div TicksPerSecond, "db")

LastSafetyPath == PathOf("backups", LastSafetyFilename)

SafetyCopied(i) == last.log[i] = Event("copy", get_db_path, LastSafetyPath, TRUE)

WritesDb(j) == last.log[j].io = "copy" /\ last.log[j].to = get_db_path

\* C1: when restore_database or import_backup succeeds and a database file
\* existed at the start of the call, the safety copy was made before the
\* database file was written, and the safety file in the backups directory
\* holds the bytes the database file had before the call.
C1_SafetyCopyBeforeOverwrite ==
    (IsRestoreOrImport /\ last.result = "Ok" /\ DbBefore.exists) =>
        /\ last.filename = LastSafetyFilename
        /\ backupsDirExists
        /\ files[LastSafetyPath].exists
        /\ files[LastSafetyPath].data = DbBefore.data
        /\ \E j \in DOMAIN last.log : WritesDb(j)
        /\ \A j \in DOMAIN last.log :
              WritesDb(j) => \E i \in 1..(j - 1) : SafetyCopied(i)

\* A successful restore of a backup whose bytes differ from the database
\* file's, over an existing database file.
C1_Witness ==
    /\ last.op = "restore_database" /\ last.result = "Ok"
    /\ DbBefore.exists
    /\ files[get_db_path].data # DbBefore.data
    /\ files[LastSafetyPath].data = DbBefore.data

\* C10: in restore_database and import_backup, when the safety copy fails
\* the call returns "Failed to create safety backup" and the database file
\* is as it was; the database file is written only after the safety copy
\* succeeded or when there was no database file to protect.
C10_NoOverwriteWithoutSafetyCopy ==
    IsRestoreOrImport =>
        /\ (\E i \in DOMAIN last.log :
                last.log[i] = Event("copy", get_db_path, LastSafetyPath, FALSE))
             => /\ last.result = "Failed to create safety backup"
                /\ files[get_db_path] = DbBefore
                /\ \A j \in DOMAIN last.log : ~WritesDb(j)
        /\ \A j \in DOMAIN last.log :
              WritesDb(j) => (~DbBefore.exists \/ \E i \in 1..(j - 1) : SafetyCopied(i))
        /\ (last.result = "Failed to create safety backup") =>
              /\ DbBefore.exists
              /\ files[get_db_path] = DbBefore

\* A restore_database whose safety copy failed, with a database file present.
C10_Witness ==
    /\ last.op = "restore_database"
    /\ last.result = "Failed to create safety backup"
    /\ DbBefore.exists
    /\ pre.files[Join(last.arg)].data # DbBefore.data

ResolutionFailed == last.result \in {"PathResolutionError", "IOError"}

\* C2: when restore_database(backup_filename) succeeds for a name of a file
\* in the backups directory, the database file holds the bytes that file
\* had when the call began.
C2_RestoredContentIsBackup ==
    (last.op = "restore_database" /\ last.result = "Ok" /\ ~last.arg.up) =>
        /\ files[get_db_path].exists
        /\ files[get_db_path].data = pre.files[Join(last.arg)].data

NotFoundOps == {"restore_database", "export_backup", "delete_backup"}

\* C3 as claimed, for a plain file name and a call that resolved its
\* directories: when backup_filename names no file of the backups directory,
\* restore_database, export_backup and delete_backup fail with the not-found
\* error and leave every file and the existence of the backups directory as
\* they were.
C3_NotFoundNoSideEffects ==
    (/\ last.op \in NotFoundOps /\ ~last.arg.up
     /\ ~pre.files[Join(last.arg)].exists
     /\ ~ResolutionFailed) =>
        /\ last.result = "Backup file not found"
        /\ files = pre.files
        /\ backupsDirExists = pre.dir

\* C3 as amended: when the path backups_dir.join(backup_filename) names no
\* existing file, the three commands leave every file as it was; they
\* return the not-found error with the backups directory created if it was
\* absent, or the path resolution's error with the directory as it was.
C3_NotFoundCreatesOnlyDirectory ==
    (last.op \in NotFoundOps /\ ~pre.files[Join(last.arg)].exists) =>
        /\ files = pre.files
        /\ IF ResolutionFailed
           THEN backupsDirExists = pre.dir
           ELSE last.result = "Backup file not found" /\ backupsDirExists

\* A not-found delete_backup that created the backups directory.
C3_Witness ==
    /\ last.op = "delete_backup"
    /\ last.result = "Backup file not found"
    /\ ~pre.dir
    /\ backupsDirExists

ExtensionCheckedOps == {"delete_backup", "import_backup"}

\* The file the last delete_backup or import_backup names.
LastTarget == IF last.op = "delete_backup" THEN Join(last.arg) ELSE last.path

InvalidInputMessage ==
    IF last.op = "delete_backup"
    THEN "Can only delete .db backup files"
    ELSE "Invalid backup file. Expected .db file"

NotFoundMessage ==
    IF last.op = "delete_backup"
    THEN "Backup file not found"
    ELSE "Source backup file not found"

\* C4 as claimed, for a call that resolved its directories: for a name or
\* path without the .db extension, delete_backup and import_backup fail with
\* the invalid-input error and touch nothing: every file and the backups
\* directory are as they were.
C4_NonDbRejectedUntouched ==
    (last.op \in ExtensionCheckedOps /\ ~HasDbExtension(LastTarget) /\ ~ResolutionFailed) =>
        /\ last.result = InvalidInputMessage
        /\ files = pre.files
        /\ backupsDirExists = pre.dir

\* C4 as amended: for a name or path without the .db extension the two
\* commands leave every file as it was; they return the invalid-input error
\* when the named file exists and the not-found error when it does not, with
\* the backups directory created if it was absent, or the path resolution's
\* error with the directory as it was.
C4_NonDbRejectedAfterExistenceCheck ==
    (last.op \in ExtensionCheckedOps /\ ~HasDbExtension(LastTarget)) =>
        /\ files = pre.files
        /\ IF ResolutionFailed
           THEN backupsDirExists = pre.dir
           ELSE /\ backupsDirExists
                /\ last.result = IF pre.files[LastTarget].exists
                                 THEN InvalidInputMessage
                                 ELSE NotFoundMessage

\* An import of an existing notes.txt, refused, with a database file present.
C4_Witness ==
    /\ last.op = "import_backup"
    /\ last.path = PathOf("external", NotesName)
    /\ last.result = "Invalid backup file. Expected .db file"
    /\ DbBefore.exists

\* C8: no command removes the database file, and delete_backup removes only
\* a file of the backups directory.
C8_DatabaseFileNeverRemoved ==
    /\ DbBefore.exists => files[get_db_path].exists
    /\ (last.op = "delete_backup" /\ last.result = "Ok") =>
          Join(last.arg).dir = "backups"

\* C9 as claimed: every file in the backups directory has the .db extension.
C9_BackupDirHoldsOnlyDb ==
    \A p \in BackupDirPaths : files[p].exists => HasDbExtension(p)

\* C9 as amended: a file that a command creates in the backups directory has
\* the .db extension, unless it is the destination_path of export_backup,
\* which is written wherever it points.
C9_OnlyExportCreatesNonDb ==
    \A p \in BackupDirPaths :
        (files[p].exists /\ ~pre.files[p].exists) =>
            \/ HasDbExtension(p)
            \/ last.op = "export_backup" /\ last.path = p

\* An export_backup that created notes.txt in the backups directory.
C9_Witness ==
    /\ last.op = "export_backup" /\ last.result = "Ok"
    /\ last.path = PathOf("backups", NotesName)
    /\ files[last.path].exists
    /\ ~pre.files[last.path].exists

Range(seq) == {seq[i] : i \in DOMAIN seq}

\* What list_backups returns before and after the last command.
ListingBefore == Range(ListBackups(pre.files, pre.dir))

ListingAfter == Range(ListBackups(files, backupsDirExists))

Filenames(entries) == {e.filename : e \in entries}

BackupSucceeded == last.op = "backup_database" /\ last.result = "Ok"

\* The file name the last backup_database computes.
LastBackupFilename == Name("motormods_backup_", last.time \div TicksPerSecond, "db")

\* C5 as claimed: after a successful backup_database, list_backups holds
\* exactly one entry that it did not hold before, and that entry's file_size
\* is the database file's size.
C5_ExactlyOneNewEntry ==
    BackupSucceeded =>
        /\ Cardinality(ListingAfter \ ListingBefore) = 1
        /\ \A e \in ListingAfter \ ListingBefore : e.file_size = Len(DbBefore.data)

\* C5 as amended: after a successful backup_database, list_backups holds an
\* entry named motormods_backup_<timestamp>.db whose file_size is the
\* database file's size, and the entries of every other name are as before;
\* the name is new to the listing exactly when no file of that name (an
\* earlier backup of the same second) was there, else its entry is replaced.
C5_EntryOfThisSecond ==
    BackupSucceeded =>
        /\ last.filename = LastBackupFilename
        /\ last.file_size = Len(DbBefore.data)
        /\ \E e \in ListingAfter :
              e.filename = LastBackupFilename /\ e.file_size = Len(DbBefore.data)
        /\ {e \in ListingAfter : e.filename # LastBackupFilename}
              = {e \in ListingBefore : e.filename # LastBackupFilename}
        /\ Filenames(ListingAfter) \ Filenames(ListingBefore)
              = IF LastBackupFilename \in Filenames(ListingBefore)
                THEN {}
                ELSE {LastBackupFilename}

\* A backup_database in the second of an earlier backup, whose file it
\* overwrote with other bytes.
C5_Witness ==
    /\ BackupSucceeded
    /\ LastBackupFilename \in Filenames(ListingBefore)
    /\ pre.files[PathOf("backups", LastBackupFilename)].data # DbBefore.data

\* C6 as claimed, for a name of a file in the backups directory and a first
\* call that found a database file to protect: a second successful
\* restore_database of the same backup_filename leaves the database file's bytes as the first left them,
\* and the two calls leave two distinct safety files.
C6_IdempotentTwoSafetyFiles ==
    (last.again.is /\ ~last.arg.up /\ last.again.copied) =>
        /\ files[get_db_path].data = DbBefore.data
        /\ last.filename # last.again.filename
        /\ files[PathOf("backups", last.filename)].exists
        /\ files[PathOf("backups", last.again.filename)].exists

\* C6 as amended: a second successful restore_database of the same
\* backup_filename leaves the database file's bytes as the first left them;
\* each call names its safety file after its own second, so the two names
\* differ exactly when the calls fall in different seconds, and within one
\* second the second call writes over the first call's safety file.  The
\* second call's safety file holds the bytes the first call restored.
C6_IdempotentSafetyPerSecond ==
    last.again.is =>
        /\ files[get_db_path].data = DbBefore.data
        /\ last.filename = LastSafetyFilename
        /\ (last.filename # last.again.filename)
              <=> (last.time \div TicksPerSecond # last.again.time \div TicksPerSecond)
        /\ files[LastSafetyPath].exists
        /\ files[LastSafetyPath].data = DbBefore.data
        /\ (last.again.copied /\ last.filename # last.again.filename) =>
              /\ files[PathOf("backups", last.again.filename)].exists
              /\ files[PathOf("backups", last.again.filename)]
                    = pre.files[PathOf("backups", last.again.filename)]

\* Two restores of one backup in one second, the first over an existing
\* database file: one safety file for both.
C6_Witness ==
    /\ last.again.is
    /\ last.again.copied
    /\ last.filename = last.again.filename
    /\ ~last.arg.up

\* The paths the last command is given or computes as what it writes or
\* removes.
LastTargets ==
    CASE last.op = "backup_database" -> {PathOf("backups", LastBackupFilename)}
      [] IsRestoreOrImport -> {LastSafetyPath}
      [] last.op = "export_backup" -> {last.path}
      [] last.op = "delete_backup" -> {Join(last.arg)}
      [] OTHER -> {}

Kept(p) == files[p].exists /\ files[p].data = pre.files[p].data

\* C7 as claimed: a file of the backups directory keeps its bytes until
\* delete_backup removes it, and a successful backup_database creates one
\* new file.
C7_BackupFilesImmutable ==
    /\ \A p \in BackupDirPaths :
          pre.files[p].exists =>
              \/ Kept(p)
              \/ /\ last.op = "delete_backup" /\ Join(last.arg) = p
                 /\ ~files[p].exists
    /\ BackupSucceeded =>
          Cardinality({p \in BackupDirPaths : files[p].exists /\ ~pre.files[p].exists}) = 1

\* C7 as amended: a file of the backups directory keeps its bytes across
\* every command except the one that names it: delete_backup of it,
\* export_backup with it as destination_path, and backup_database,
\* restore_database or import_backup in the second its timestamped name
\* belongs to, which write over it.  backup_database writes no other file.
C7_OnlyNamedFileRewritten ==
    /\ \A p \in BackupDirPaths :
          pre.files[p].exists => (Kept(p) \/ p \in LastTargets)
    /\ BackupSucceeded =>
          /\ files[PathOf("backups", LastBackupFilename)].exists
          /\ \A p \in Paths \ LastTargets : files[p] = pre.files[p]

\* A backup_database that wrote other bytes over an existing backup.
C7_Witness ==
    /\ BackupSucceeded
    /\ pre.files[PathOf("backups", LastBackupFilename)].exists
    /\ ~Kept(PathOf("backups", LastBackupFilename))
    /\ \E p \in BackupDirPaths \ LastTargets : pre.files[p].exists

====
